---- MODULE Spec2Model ----
(***************************************************************************)
(* A model of the command-line agent of src/src/main.cpp: the tool loop of *)
(* main(), the tool registry, and the three tools (read_file, write_file,  *)
(* bash).  The completion service, the file system and the child processes *)
(* are the environment.                                                    *)
(***************************************************************************)
EXTENDS Integers, Sequences, FiniteSets, TLC

\* ------------------------------------------------------------------------
\* Program constants
\* ------------------------------------------------------------------------
MAX_ITER == 10
MAX_MESSAGES == 30
ReadFileTool_MAX_SIZE == 1000000
WriteFileTool_MAX_SIZE == 1000000
MAX_OUTPUT == 1000000

\* ------------------------------------------------------------------------
\* Bounds of the model
\* ------------------------------------------------------------------------
\* The largest number of tool-call requests in one scripted assistant message.
MaxCalls == 3

\* ------------------------------------------------------------------------
\* std::string.  A string is a sequence of chunks followed by `pad` filler
\* bytes (bytes that occur in no needle the program searches for).  The
\* characters the program looks at ('.', '/', ':', ' ', '-') and the words
\* it searches for are always chunks of their own, so that find() is a
\* search for a contiguous run of chunks.
\* ------------------------------------------------------------------------
Str(chunks, n) == [chars |-> chunks, pad |-> n]

S(text) == Str(<<text>>, 0)

EmptyStr == Str(<<>>, 0)

RECURSIVE SumLen(_)
SumLen(chunks) ==
    IF chunks = <<>> THEN 0 ELSE Len(Head(chunks)) + SumLen(Tail(chunks))

\* std::string::size()
Size(s) == SumLen(s.chars) + s.pad

\* std::string::empty()
IsEmpty(s) == Size(s) = 0

\* s.find(needle) != std::string::npos
Find(s, needle) ==
    \E i \in 1..(Len(s.chars) - Len(needle) + 1) :
        SubSeq(s.chars, i, i + Len(needle) - 1) = needle

\* a + b (the filler bytes are kept at the end: no needle spans them)
Concat(a, b) == Str(a.chars \o b.chars, a.pad + b.pad)

\* ------------------------------------------------------------------------
\* nlohmann::json values.  Absent stands for a key an object does not hold.
\* An object is a function from its keys to values.
\* ------------------------------------------------------------------------
Absent == [t |-> "absent"]

JNull == [t |-> "null"]

JStr(s) == [t |-> "string", s |-> s]

JNum(n) == [t |-> "number", n |-> n]

JArr(items) == [t |-> "array", items |-> items]

JObj(fields) == [t |-> "object", fields |-> fields]

EmptyObj == JObj(<<>>)

\* json::is_string()
IsString(v) == v.t = "string"

\* json::is_array()
IsArray(v) == v.t = "array"

\* json::contains(key): false for anything that is not an object
Contains(v, key) == v.t = "object" /\ key \in DOMAIN v.fields

\* const json::operator[](key), used after contains(key)
Get(v, key) == IF Contains(v, key) THEN v.fields[key] ELSE Absent

\* json::operator[](key) = value on an object or on null (null becomes an object)
Put(v, key, value) ==
    LET old == IF v.t = "object" THEN v.fields ELSE <<>>
    IN  JObj([k \in (DOMAIN old) \cup {key} |-> IF k = key THEN value ELSE old[k]])

\* json::empty(): null, and an array or object without elements
JEmpty(v) ==
    \/ v.t = "null"
    \/ v.t = "array" /\ v.items = <<>>
    \/ v.t = "object" /\ DOMAIN v.fields = {}

\* ------------------------------------------------------------------------
\* JSON text and json::parse.  A text is a sequence of tokens; parse accepts
\* a scalar, or a flat object  { "k" : v , "k" : v ... } .
\* ------------------------------------------------------------------------
LBrace == [k |-> "{"]

RBrace == [k |-> "}"]

Colon == [k |-> ":"]

Comma == [k |-> ","]

TStr(s) == [k |-> "string", v |-> JStr(s)]

TNum(n) == [k |-> "number", v |-> JNum(n)]

\* the serialised text of a whole value (json::dump), nested values included
TDump(v) == [k |-> "value", v |-> v]

IsValueTok(tok) == tok.k \in {"string", "number", "value"}

\* a std::string holding JSON text, as its tokens (a string given by Str holds
\* no JSON text)
Text(toks) == [toks |-> toks]

\* the key : value pairs of tokens 2 .. Len-1, four tokens apart
RECURSIVE ParseMembers(_, _)
ParseMembers(toks, acc) ==
    IF toks = <<>> THEN [ok |-> TRUE, v |-> acc]
    ELSE IF /\ Len(toks) >= 3
            /\ toks[1].k = "string"
            /\ toks[2] = Colon
            /\ IsValueTok(toks[3])
            /\ (Len(toks) = 3 \/ (Len(toks) >= 7 /\ toks[4] = Comma))
         THEN ParseMembers(SubSeq(toks, 5, Len(toks)),
                           Put(acc, toks[1].v.s.chars[1], toks[3].v))
         ELSE [ok |-> FALSE, v |-> JNull]

\* json::parse(text): ok is FALSE where parse throws
JsonParse(text) ==
    LET toks == IF "toks" \in DOMAIN text THEN text.toks ELSE <<>> IN
    IF Len(toks) = 1 /\ IsValueTok(toks[1]) THEN [ok |-> TRUE, v |-> toks[1].v]
    ELSE IF Len(toks) >= 2 /\ toks[1] = LBrace /\ toks[Len(toks)] = RBrace
         THEN ParseMembers(SubSeq(toks, 2, Len(toks) - 1), EmptyObj)
         ELSE [ok |-> FALSE, v |-> JNull]

\* ------------------------------------------------------------------------
\* The environment of the tools: the files of the working directory and the
\* commands a child process can run.
\* ------------------------------------------------------------------------
Path(chunks) == Str(chunks, 0)

\* size: what tellg() reports (-1: not determinable); readable: read() succeeds
File(size, data, readable) == [size |-> size, data |-> data, readable |-> readable]

InitFiles ==
    (Path(<<"a", ".", "txt">>) :> File(5, S("hello"), TRUE))
    @@ (Path(<<"empty", ".", "txt">>) :> File(0, EmptyStr, TRUE))
    @@ (Path(<<"exact", ".", "bin">>) :> File(1000000, Str(<<>>, 1000000), TRUE))
    @@ (Path(<<"big", ".", "bin">>) :> File(1000001, Str(<<>>, 1000001), TRUE))
    @@ (Path(<<"fifo">>) :> File(-1, EmptyStr, TRUE))
    @@ (Path(<<"bad", ".", "txt">>) :> File(7, S("damaged"), FALSE))

\* std::ofstream(path, trunc) opens: not under a directory that does not exist
CanOpenWrite(path) == ~(Len(path.chars) > 0 /\ path.chars[1] = "nodir")

\* file.write() succeeds: not on the full device mounted at full/
CanWrite(path) == ~(Len(path.chars) > 0 /\ path.chars[1] = "full")

\* _popen(command) returns a pipe
CanSpawn(command) == ~(Len(command.chars) > 0 /\ command.chars[1] = "nospawn")

\* what the child process writes to its standard output
ProcOutput(command) ==
    IF Find(command, <<"yes">>) THEN Str(<<"y", "\n">>, 999999)
    ELSE IF Find(command, <<"seq">>) THEN Str(<<"1", "\n">>, 999998)
    ELSE IF Find(command, <<"true">>) THEN EmptyStr
    ELSE S("out\n")

\* what _pclose() returns
ProcExit(command) == IF Find(command, <<"false">>) THEN 1 ELSE 0

Event(op, arg) == [op |-> op, arg |-> arg]

\* what Tool::execute did: its return value, its I/O, the files afterwards
Outcome(result, io, files) == [result |-> result, io |-> io, files |-> files]

\* the traversal check, were it to look at the start of the path alone
Traversal_at_start(path) ==
    Len(path.chars) >= 2 /\ SubSeq(path.chars, 1, 2) = <<".", ".">>

\* path.find("..") != std::string::npos
Traversal(path) == Find(path, <<".", ".">>)

\* size > MAX_SIZE, were the limit itself refused as well
TooLarge_inclusive(size, limit) == size >= limit

\* size > MAX_SIZE, content.size() > MAX_SIZE, result.size() > MAX_OUTPUT
TooLarge(size, limit) == size > limit

\* ------------------------------------------------------------------------
\* ReadFileTool::execute
\* ------------------------------------------------------------------------
ReadFileTool_execute(args, files) ==
    IF ~Contains(args, "path") \/ ~IsString(Get(args, "path"))
    THEN Outcome(Str(<<"ERROR : ", "invalid argumnets.">>, 0), <<>>, files)
    ELSE LET path == Get(args, "path").s IN
    IF Traversal(path)
    THEN Outcome(Str(<<"ERROR : ", "path traversal detected.">>, 0), <<>>, files)
    ELSE IF path \notin DOMAIN files
    THEN Outcome(Str(<<"ERROR : ", "could not open file.">>, 0),
              <<Event("open", path)>>, files)
    ELSE LET size == files[path].size IN
    IF size < 0
    THEN Outcome(Str(<<"ERROR: ", "could not determine file size.">>, 0),
              <<Event("open", path), Event("tellg", path)>>, files)
    ELSE IF TooLarge(size, ReadFileTool_MAX_SIZE)
    THEN Outcome(Str(<<"ERROR: ", "File too Large">>, 0),
              <<Event("open", path), Event("tellg", path)>>, files)
    ELSE IF ~files[path].readable
    THEN Outcome(Str(<<"ERROR: ", "file read failed.">>, 0),
              <<Event("open", path), Event("tellg", path), Event("read", path)>>,
              files)
    ELSE Outcome(files[path].data,
              <<Event("open", path), Event("tellg", path), Event("read", path)>>,
              files)

\* ------------------------------------------------------------------------
\* WriteFileTool::execute
\* ------------------------------------------------------------------------
WriteFileTool_execute(args, files) ==
    IF \/ ~Contains(args, "path") \/ ~IsString(Get(args, "path"))
       \/ ~Contains(args, "content") \/ ~IsString(Get(args, "content"))
    THEN Outcome(Str(<<"ERROR: ", "invalid arguments">>, 0), <<>>, files)
    ELSE LET path == Get(args, "path").s
             content == Get(args, "content").s
             truncated == (path :> File(0, EmptyStr, TRUE)) @@ files
             written == (path :> File(Size(content), content, TRUE)) @@ files
    IN
    IF \/ IsEmpty(path)
       \/ Traversal(path)
       \/ path.chars[1] = "/"
       \/ Find(path, <<":">>)
    THEN Outcome(Str(<<"ERROR: ", "invalid arguments ">>, 0), <<>>, files)
    ELSE IF TooLarge(Size(content), WriteFileTool_MAX_SIZE)
    THEN Outcome(Str(<<"ERROR: ", "content too large.">>, 0), <<>>, files)
    ELSE IF ~CanOpenWrite(path)
    THEN Outcome(Str(<<"ERROR: ", "could not open file for writing.">>, 0),
              <<Event("open_trunc", path)>>, files)
    ELSE IF ~CanWrite(path)
    THEN Outcome(Str(<<"ERROR: ", "write failed.">>, 0),
              <<Event("open_trunc", path), Event("write", path)>>, truncated)
    ELSE Outcome(Str(<<"SUCESS: ", "file written.">>, 0),
              <<Event("open_trunc", path), Event("write", path)>>, written)

\* ------------------------------------------------------------------------
\* BashTool::execute
\* ------------------------------------------------------------------------
\* the denylist, were it to hold "sudo" alone
Denied_sudo_only(command) == Find(command, <<"sudo">>)

\* command.find("sudo") != npos || command.find("rm -rf /") != npos
Denied(command) ==
    \/ Find(command, <<"sudo">>)
    \/ Find(command, <<"rm", " ", "-", "rf", " ", "/">>)

\* the capture loop, were it to return the over-limit error with the pipe open
Capture_unclosed(command) ==
    IF TooLarge(Size(ProcOutput(command)), MAX_OUTPUT)
    THEN [result |-> Str(<<"ERROR: ", "output too large.">>, 0), io |-> <<>>]
    ELSE [result |-> Concat(Str(<<"EXIT_CODE: ", ToString(ProcExit(command)), "\n",
                                  "OUTPUT:\n">>, 0),
                            ProcOutput(command)),
          io |-> <<Event("pclose", command)>>]

\* the capture loop over the pipe, to the return: fgets until the end of the
\* output, or until more than MAX_OUTPUT bytes are held; _pclose on either path
Capture(command) ==
    IF TooLarge(Size(ProcOutput(command)), MAX_OUTPUT)
    THEN [result |-> Str(<<"ERROR: ", "output too large.">>, 0),
          io |-> <<Event("pclose", command)>>]
    ELSE [result |-> Concat(Str(<<"EXIT_CODE: ", ToString(ProcExit(command)), "\n",
                                  "OUTPUT:\n">>, 0),
                            ProcOutput(command)),
          io |-> <<Event("pclose", command)>>]

BashTool_execute(args, files) ==
    IF ~Contains(args, "command") \/ ~IsString(Get(args, "command"))
    THEN Outcome(Str(<<"ERROR: ", "inveild arguments.">>, 0), <<>>, files)
    ELSE LET command == Get(args, "command").s IN
    IF IsEmpty(command)
    THEN Outcome(Str(<<"ERROR: ", "empty command">>, 0), <<>>, files)
    ELSE IF Denied(command)
    THEN Outcome(Str(<<"ERROR: ", "command not allowed.">>, 0), <<>>, files)
    ELSE IF ~CanSpawn(command)
    THEN Outcome(Str(<<"ERROR: ", "failed to execute command.">>, 0),
              <<Event("popen_failed", command)>>, files)
    ELSE Outcome(Capture(command).result,
              <<Event("popen", command)>> \o Capture(command).io, files)

\* one call of Tool::execute, as the log of the model keeps it: the tool, its
\* argument, what it returned, its I/O, the files before and after
Execution(tool_id, tool, args, ran, before) ==
    [id |-> tool_id, tool |-> tool, args |-> args, result |-> ran.result,
     io |-> ran.io, before |-> before, after |-> ran.files]

\* Tool::execute, by the tool the registry holds
Tool_execute(tool, args, files) ==
    CASE tool = "ReadFileTool" -> ReadFileTool_execute(args, files)
      [] tool = "WriteFileTool" -> WriteFileTool_execute(args, files)
      [] tool = "BashTool" -> BashTool_execute(args, files)

\* ------------------------------------------------------------------------
\* ToolRegistry
\* ------------------------------------------------------------------------
NullTool == "nullptr"

\* ToolRegistry::register_tool
register_tool(tools, name, tool) == (name :> tool) @@ tools

\* ToolRegistry::get, were it to fall back on the shell for a name it does not hold
ToolRegistry_get_fallback(tools, name) ==
    IF name \in DOMAIN tools THEN tools[name] ELSE "BashTool"

\* ToolRegistry::get
ToolRegistry_get(tools, name) ==
    IF name \in DOMAIN tools THEN tools[name] ELSE NullTool

\* ------------------------------------------------------------------------
\* The completion service (cpr::Post): the responses it may give.
\* ------------------------------------------------------------------------
Response(error, status_code, text) ==
    [error |-> error, status_code |-> status_code, text |-> text]

\* a 2xx response whose body is the JSON text of `result`
Ok(result) == Response(FALSE, 200, Text(<<TDump(result)>>))

\* {"choices": [{"message": message}]}
Choices(message) ==
    JObj("choices" :> JArr(<<JObj("message" :> message)>>))

Call(id, name, arguments) ==
    JObj(("id" :> id)
         @@ ("type" :> JStr(S("function")))
         @@ ("function" :> JObj(("name" :> name) @@ ("arguments" :> arguments))))

Args1(k, v) == Text(<<LBrace, TStr(S(k)), Colon, v, RBrace>>)

Args2(k1, v1, k2, v2) ==
    Text(<<LBrace, TStr(S(k1)), Colon, v1, Comma, TStr(S(k2)), Colon, v2, RBrace>>)

ReadArgs(path) == Args1("path", TStr(Path(path)))

WriteArgs(path, content) == Args2("path", TStr(Path(path)), "content", TStr(content))

BashArgs(command) == Args1("command", TStr(Str(command, 0)))

\* The tool-call requests the scripted service draws from, in turn:
\* <<function.name, function.arguments>>
Catalogue ==
    << <<"read_file", ReadArgs(<<"a", ".", "txt">>)>>,
       <<"delete_file", ReadArgs(<<"a", ".", "txt">>)>>,
       <<"bash", BashArgs(<<"ls">>)>>,
       <<"write_file", WriteArgs(<<"out", ".", "txt">>, S("data"))>>,
       <<"read_file", Text(<<LBrace, TStr(S("path")), Colon>>)>>,
       <<"read_file", ReadArgs(<<".", ".", "/", "etc", "/", "passwd">>)>>,
       <<"bash", BashArgs(<<"sudo", " ", "rm", " ", "important", "-", "file">>)>>,
       <<"write_file", WriteArgs(<<"x", "/", ".", ".", "/", "y">>, S("c"))>>,
       <<"read_file", ReadArgs(<<"big", ".", "bin">>)>>,
       <<"write_file", WriteArgs(<<"big", ".", "out">>, Str(<<>>, 1000001))>>,
       <<"bash", BashArgs(<<"yes">>)>>,
       <<"read_file", ReadArgs(<<"out", ".", "txt">>)>>,
       <<"bash", BashArgs(<<"rm", " ", "-", "rf", " ", "/">>)>>,
       <<"write_file", WriteArgs(<<"exact", ".", "out">>, Str(<<>>, 1000000))>>,
       <<"read_file", ReadArgs(<<"exact", ".", "bin">>)>>,
       <<"bash", BashArgs(<<>>)>>,
       <<"read_file", Args1("path", TNum(5))>>,
       <<"write_file", WriteArgs(<<"/", "abs">>, S("c"))>>,
       <<"write_file", WriteArgs(<<"c", ":", "x">>, S("c"))>>,
       <<"read_file", ReadArgs(<<"fifo">>)>>,
       <<"read_file", ReadArgs(<<"bad", ".", "txt">>)>>,
       <<"read_file", ReadArgs(<<"missing">>)>>,
       <<"write_file", WriteArgs(<<"nodir", "/", "x">>, S("c"))>>,
       <<"write_file", WriteArgs(<<"full", "/", "x">>, S("c"))>>,
       <<"bash", BashArgs(<<"nospawn">>)>>,
       <<"bash", BashArgs(<<"false">>)>>,
       <<"bash", Text(<<TNum(5)>>)>>,
       <<"", ReadArgs(<<"a", ".", "txt">>)>>,
       <<"write_file", Text(<<>>)>>,
       <<"bash", BashArgs(<<"seq", " ", "1000000", ";", "false">>)>> >>

\* the id the service gives the i-th request of its n-th response
CallId(n, i) == Str(<<"call_", ToString(n), "_", ToString(i)>>, 0)

\* the i-th tool-call request of the n-th response of a scripted service
CallAt(n, i) ==
    LET entry == Catalogue[(((n - 1) * MaxCalls + i - 1) % Len(Catalogue)) + 1]
    IN  Call(JStr(CallId(n, i)), JStr(S(entry[1])), JStr(entry[2]))

\* tool-call requests the loop cannot dispatch: a field missing or of the wrong type
BadCalls(n, i) ==
    { Call(Absent, JStr(S("bash")), JStr(BashArgs(<<"ls">>))),
      Call(JNum(7), JStr(S("bash")), JStr(BashArgs(<<"ls">>))),
      Call(JStr(CallId(n, i)), Absent, JStr(BashArgs(<<"ls">>))),
      Call(JStr(CallId(n, i)), JStr(S("bash")),
           JObj("command" :> JStr(S("ls")))),
      JObj("id" :> JStr(CallId(n, i))),
      JStr(S("bash")) }

Batch(n, k) == [i \in 1..k |-> CallAt(n, i)]

Assistant == JStr(S("assistant"))

\* The assistant messages after which the loop goes on, by the name of their shape
Continuing(shape, n) ==
    CASE shape = "one" ->
            JObj("tool_calls" :> JArr(Batch(n, 1)))
      [] shape = "many" ->
            JObj(("role" :> Assistant) @@ ("content" :> JNull)
                 @@ ("tool_calls" :> JArr(Batch(n, MaxCalls))))
      [] shape = "empty" ->
            JObj(("role" :> Assistant) @@ ("content" :> JStr(S("hi")))
                 @@ ("tool_calls" :> JArr(<<>>)))
      [] shape = "null" ->
            JObj(("content" :> JStr(S("hi"))) @@ ("tool_calls" :> JNull))

\* A scripted service keeps to the shapes of its script
Scripts == { {"one", "many"}, {"empty"}, {"null"} }

\* The messages that end the run: a final answer, or one the loop cannot process
Ending(n) ==
    { JObj(("role" :> Assistant) @@ ("content" :> JStr(S("done")))),
      JObj("content" :> JStr(S("answer"))),
      JObj("role" :> Assistant),
      JObj(("role" :> Assistant) @@ ("content" :> JNull)),
      JObj(("role" :> Assistant) @@ ("content" :> JNum(42))),
      JObj(("role" :> Assistant) @@ ("tool_calls" :> JStr(S("bash")))),
      EmptyObj,
      JNull,
      JStr(S("done")),
      JArr(<<>>) }
    \cup { JObj(("role" :> Assistant) @@ ("tool_calls" :> JArr(<<bad>>))) :
             bad \in BadCalls(n, 1) }
    \cup { JObj("tool_calls" :> JArr(Batch(n, 1) \o <<bad>>)) :
             bad \in { Call(JStr(CallId(n, 2)), JStr(S("bash")),
                            JObj("command" :> JStr(S("ls")))) } }

\* The responses without a choices[0].message, and the transport failures
Failures ==
    { Response(TRUE, 0, EmptyStr),
      Response(FALSE, 199, S("early")),
      Response(FALSE, 300, Text(<<TDump(Choices(JObj("content" :> JStr(S("moved")))))>>)),
      Response(FALSE, 404, S("not found")),
      Response(FALSE, 500, Text(<<TDump(Choices(JObj("content" :> JStr(S("done")))))>>)),
      Response(FALSE, 200, S("<html>")),
      Response(FALSE, 299, S("<html>")),
      Response(FALSE, 200, Text(<<LBrace, TStr(S("choices")), Colon>>)),
      Ok(EmptyObj),
      Ok(JArr(<<>>)),
      Ok(JObj("choices" :> JNull)),
      Ok(JObj("choices" :> JStr(S("none")))),
      Ok(JObj("choices" :> JObj("message" :> EmptyObj))),
      Ok(JObj("choices" :> JArr(<<>>))),
      Ok(JObj("choices" :> JArr(<<EmptyObj>>))),
      Ok(JObj("choices" :> JArr(<<JObj("finish_reason" :> JStr(S("stop")))>>))),
      Ok(JObj("choices" :> JArr(<<JStr(S("message"))>>))) }

\* What the n-th request may be answered with, by a service of the given script
Responses(script, n) ==
    Failures
    \cup { Ok(Choices(m)) : m \in Ending(n) }
    \cup { Response(FALSE, 299,
                     Text(<<TDump(Choices(JObj("content" :> JStr(S("done")))))>>)) }
    \cup { Ok(Choices(Continuing(shape, n))) : shape \in script }

\* ------------------------------------------------------------------------
\* The command line and the environment variables (load_config)
\* ------------------------------------------------------------------------
NoEnv == "<unset>"

Invocation(argv, api_key_env, base_url_env) ==
    [argv |-> argv, api_key_env |-> api_key_env, base_url_env |-> base_url_env]

\* argv[1..] and the two environment variables of the runs the model starts
Invocations ==
    { Invocation(<<"-p", "list the files">>, "sk-key", NoEnv),
      Invocation(<<"-p", "list the files">>, NoEnv, NoEnv),
      Invocation(<<"-p", "list the files">>, "", "http://localhost:8080"),
      Invocation(<<"-p", "">>, "sk-key", NoEnv),
      Invocation(<<"-q", "list the files">>, "sk-key", NoEnv),
      Invocation(<<"-p">>, "sk-key", NoEnv),
      Invocation(<<>>, "sk-key", NoEnv) }

\* load_config: ok is FALSE where it throws std::runtime_error(what)
load_config(inv) ==
    LET threw(what) == [ok |-> FALSE, what |-> what]
        api_key == IF inv.api_key_env = NoEnv THEN "" ELSE inv.api_key_env
        base_url == IF inv.base_url_env = NoEnv THEN "https://openrouter.ai/api/v1"
                    ELSE inv.base_url_env
    IN  IF Len(inv.argv) + 1 < 3 \/ inv.argv[1] # "-p"
        THEN threw("Expected first argument to be '-p'")
        ELSE IF inv.argv[2] = ""
        THEN threw("Prompt must not be empty")
        ELSE IF api_key = ""
        THEN threw("OPENROUTER_API_KEY is not set")
        ELSE [ok |-> TRUE, prompt |-> S(inv.argv[2]), api_key |-> api_key,
              base_url |-> base_url]

\* ------------------------------------------------------------------------
\* The state of main()
\* ------------------------------------------------------------------------
VARIABLES
    pc,          \* where main() is: start, guard, send, recv, dispatch, after,
                 \* exited (returned from main), fault (uncaught exception)
    config,      \* RuntimeConfig
    registry,    \* ToolRegistry::tools: name -> tool
    messages,    \* the conversation history
    iterations,  \* the loop counter
    message,     \* the assistant message of this iteration
    ci,          \* the position of the range-for over message["tool_calls"]
    sent,        \* the messages of the last request body
    responses,   \* the responses of the completion service, in order
    requests,    \* the number of requests posted
    script,      \* the shapes the completion service of this run answers with
    files,       \* the files of the working directory
    io,          \* the file and process operations of the tools, in order
    executed,    \* the tool executions (Execution), in order
    out,         \* what was written to std::cout
    err,         \* what was written to std::cerr
    exit_code    \* what main() returned (-1: it has not)

vars == <<pc, config, registry, messages, iterations, message, ci, sent, responses,
          requests, script, files, io, executed, out, err, exit_code>>

NoConfig == [ok |-> FALSE, what |-> ""]

Init ==
    /\ pc = "start"
    /\ config = NoConfig
    /\ registry = <<>>
    /\ messages = <<>>
    /\ iterations = 0
    /\ message = JNull
    /\ ci = 0
    /\ sent = <<>>
    /\ responses = <<>>
    /\ requests = 0
    /\ script \in Scripts
    /\ files = InitFiles
    /\ io = <<>>
    /\ executed = <<>>
    /\ out = <<>>
    /\ err = <<>>
    /\ exit_code = -1

\* return code; from main()
Return(code) == pc' = "exited" /\ exit_code' = code

\* an exception nothing catches: std::terminate
Throw == pc' = "fault" /\ UNCHANGED exit_code

\* the seed of the history
Seed(prompt) == JObj(("role" :> JStr(S("user"))) @@ ("content" :> JStr(prompt)))

\* the registry after the three register_tool calls of main()
Registered ==
    register_tool(register_tool(register_tool(<<>>, "read_file", "ReadFileTool"),
                                "write_file", "WriteFileTool"),
                  "bash", "BashTool")

\* main(), to the loop: load_config, the tool setup, the seed of the history
Startup ==
    /\ pc = "start"
    /\ \E inv \in Invocations :
        LET loaded == load_config(inv) IN
        IF ~loaded.ok
        THEN /\ err' = Append(err, loaded.what)
             /\ Return(1)
             /\ UNCHANGED <<config, registry, messages>>
        ELSE /\ config' = loaded
             /\ registry' = Registered
             /\ messages' = <<Seed(loaded.prompt)>>
             /\ pc' = "guard"
             /\ UNCHANGED <<err, exit_code>>
    /\ UNCHANGED <<iterations, message, ci, sent, responses, requests, script, files,
                   io, executed, out>>

\* while (iterations++ < MAX_ITER)
LoopGuard ==
    /\ pc = "guard"
    /\ iterations' = iterations + 1
    /\ pc' = IF iterations < MAX_ITER THEN "send" ELSE "after"
    /\ UNCHANGED <<config, registry, messages, message, ci, sent, responses, requests,
                   script, files, io, executed, out, err, exit_code>>

\* request_body and cpr::Post: the request leaves with the whole history
SendRequest ==
    /\ pc = "send"
    /\ sent' = messages
    /\ requests' = requests + 1
    /\ pc' = "recv"
    /\ UNCHANGED <<config, registry, messages, iterations, message, ci, responses,
                   script, files, io, executed, out, err, exit_code>>

\* messages.erase(messages.begin()): the eviction, were it to start at the front
erase_front(msgs) == Tail(msgs)

\* messages.push_back(m) and the eviction that follows it
erase_second(msgs) == <<msgs[1]>> \o SubSeq(msgs, 3, Len(msgs))

push_assistant(msgs, m) ==
    LET pushed == Append(msgs, m)
    IN  IF Len(pushed) > MAX_MESSAGES THEN erase_second(pushed) ELSE pushed

\* messages.push_back of a tool result
push_tool_result(msgs, tool_id, tool_result) ==
    Append(msgs, JObj(("role" :> JStr(S("tool")))
                      @@ ("tool_call_id" :> JStr(tool_id))
                      @@ ("content" :> JStr(tool_result))))

\* what `for (auto& call : v)` visits
Items(v) ==
    CASE v.t = "array" -> v.items
      [] v.t = "null" -> <<>>
      [] v.t = "object" ->
            LET RECURSIVE Values(_)
                Values(keys) ==
                    IF keys = {} THEN <<>>
                    ELSE LET k == CHOOSE x \in keys : TRUE
                         IN  <<v.fields[k]>> \o Values(keys \ {k})
            IN  Values(DOMAIN v.fields)
      [] OTHER -> <<v>>

\* response.status_code < 200 || response.status_code > 300
BadStatus_above300(status_code) == status_code < 200 \/ status_code > 300

\* response.status_code < 200 || response.status_code >= 300
BadStatus(status_code) == status_code < 200 \/ status_code >= 300

\* the checks of result before choices[0].message is read
NoChoices(result) ==
    \/ ~Contains(result, "choices")
    \/ ~IsArray(Get(result, "choices"))
    \/ JEmpty(Get(result, "choices"))
    \/ ~Contains(Get(result, "choices").items[1], "message")

\* message["role"] = "assistant" throws unless message is an object or null
CanSetRole(m) == m.t \in {"object", "null"}

\* if (!message.contains("role")) message["role"] = "assistant"
with_role(m) == IF Contains(m, "role") THEN m ELSE Put(m, "role", Assistant)

\* The response of the completion service, to the start of the dispatch loop
Receive ==
    /\ pc = "recv"
    /\ \E response \in Responses(script, iterations) :
        /\ responses' = Append(responses, response)
        /\ IF response.error
           THEN /\ err' = Append(err, "HTTP error: ")
                /\ Return(1)
                /\ UNCHANGED <<messages, message, ci, out>>
           ELSE IF BadStatus(response.status_code)
           THEN /\ err' = Append(err, "HTTP error: ")
                /\ Return(1)
                /\ UNCHANGED <<messages, message, ci, out>>
           ELSE IF ~JsonParse(response.text).ok
           THEN /\ err' = Append(err, "Invalid JSON response ")
                /\ Return(1)
                /\ UNCHANGED <<messages, message, ci, out>>
           ELSE LET result == JsonParse(response.text).v IN
           IF NoChoices(result)
           THEN /\ err' = Append(err, "No choices in response")
                /\ Return(1)
                /\ UNCHANGED <<messages, message, ci, out>>
           ELSE LET raw == Get(Get(result, "choices").items[1], "message") IN
           IF ~Contains(raw, "role") /\ ~CanSetRole(raw)
           THEN /\ message' = raw
                /\ Throw
                /\ UNCHANGED <<messages, ci, out, err>>
           ELSE LET m == with_role(raw) IN
                /\ message' = m
                /\ messages' = push_assistant(messages, m)
                /\ IF Contains(m, "tool_calls")
                   THEN /\ ci' = 1
                        /\ pc' = IF Items(Get(m, "tool_calls")) = <<>>
                                 THEN "guard" ELSE "dispatch"
                        /\ UNCHANGED <<out, err, exit_code>>
                   ELSE IF ~Contains(m, "content")
                   THEN /\ pc' = "after"
                        /\ UNCHANGED <<ci, out, err, exit_code>>
                   ELSE IF IsString(Get(m, "content"))
                   THEN /\ out' = Append(out, Get(m, "content").s)
                        /\ pc' = "after"
                        /\ UNCHANGED <<ci, err, exit_code>>
                   ELSE /\ Throw
                        /\ UNCHANGED <<ci, out, err>>
    /\ UNCHANGED <<config, registry, iterations, sent, requests, script, files, io,
                   executed>>

\* std::string x = call[...]: the conversions of a tool-call request that throw
\* unless the field is there and is a string
CanExtract(call) ==
    /\ call.t = "object"
    /\ IsString(Get(call, "id"))
    /\ Get(call, "function").t = "object"
    /\ IsString(Get(Get(call, "function"), "name"))
    /\ IsString(Get(Get(call, "function"), "arguments"))

\* the fallback, were it to leave args as the null it is constructed with
parse_args_null(args_str) ==
    IF JsonParse(args_str).ok THEN JsonParse(args_str).v ELSE JNull

\* try { args = json::parse(args_str); } catch (...) { args = json::object(); }
parse_args(args_str) ==
    IF JsonParse(args_str).ok THEN JsonParse(args_str).v ELSE EmptyObj

\* One pass of the range-for over message["tool_calls"]
Dispatch ==
    /\ pc = "dispatch"
    /\ LET calls == Items(Get(message, "tool_calls"))
           call == calls[ci]
       IN
       IF ~CanExtract(call)
       THEN /\ Throw
            /\ UNCHANGED <<messages, ci, files, io, executed>>
       ELSE LET tool_id == Get(call, "id").s
                name == Get(Get(call, "function"), "name").s
                args == parse_args(Get(Get(call, "function"), "arguments").s)
                tool == ToolRegistry_get(registry, name.chars[1])
                ran == Tool_execute(tool, args, files)
                tool_result == IF tool # NullTool THEN ran.result
                               ELSE Str(<<"ERROR: ", "TOOL NOT FOUND">>, 0)
            IN
            /\ messages' = push_tool_result(messages, tool_id, tool_result)
            /\ IF tool # NullTool
               THEN /\ files' = ran.files
                    /\ io' = io \o ran.io
                    /\ executed' = Append(executed,
                                           Execution(tool_id, tool, args, ran, files))
               ELSE UNCHANGED <<files, io, executed>>
            /\ IF ci < Len(calls)
               THEN ci' = ci + 1 /\ UNCHANGED pc
               ELSE ci' = ci /\ pc' = "guard"
            /\ UNCHANGED exit_code
    /\ UNCHANGED <<config, registry, iterations, message, sent, responses, requests,
                   script, out, err>>

\* after the loop: the warning, and return 0
AfterLoop ==
    /\ pc = "after"
    /\ err' = IF iterations > MAX_ITER
              THEN Append(err, "Max tool iterations exceeded.\n")
              ELSE err
    /\ Return(0)
    /\ UNCHANGED <<config, registry, messages, iterations, message, ci, sent,
                   responses, requests, script, files, io, executed, out>>

Next ==
    \/ Startup
    \/ LoopGuard
    \/ SendRequest
    \/ Receive
    \/ Dispatch
    \/ AfterLoop

Spec == Init /\ [][Next]_vars

\* ------------------------------------------------------------------------
\* The tools on their own: Tool::execute called on the registered tools with
\* argument objects of every kind, one call after the other on the same files.
\* ------------------------------------------------------------------------
\* The number of calls of one run
MaxExecutions == 2

ToolPaths ==
    { Path(<<"a", ".", "txt">>), Path(<<"empty", ".", "txt">>),
      Path(<<"exact", ".", "bin">>), Path(<<"big", ".", "bin">>),
      Path(<<"fifo">>), Path(<<"bad", ".", "txt">>), Path(<<"missing">>),
      Path(<<"out", ".", "txt">>),
      Path(<<".", ".">>), Path(<<".", ".", "/", "etc", "/", "passwd">>),
      Path(<<"a", ".", ".", "b">>), Path(<<"dir", "/", ".", ".", "/", "a", ".", "txt">>),
      Path(<<"/", ".", ".", "/", "x">>), Path(<<"nodir", "/", ".", ".", "/", "x">>),
      Path(<<>>), Path(<<"/", "abs">>), Path(<<"c", ":", "x">>),
      Path(<<"nodir", "/", "x">>), Path(<<"full", "/", "x">>) }

ToolCommands ==
    { <<"ls">>, <<>>, <<"true">>, <<"false">>, <<"yes">>,
      <<"seq", " ", "1000000">>, <<"nospawn">>,
      <<"sudo", " ", "rm", " ", "important", "-", "file">>,
      <<"echo", " ", "hi", ";", "sudo", " ", "ls">>,
      <<"rm", " ", "-", "rf", " ", "/">>,
      <<"cd", " ", "x", ";", "rm", " ", "-", "rf", " ", "/", "tmp">>,
      <<"rm", " ", "-", "rf", " ", ".", "/", "x">>,
      <<"nospawn", " ", "sudo">> }

\* the argument objects a tool is called with
ToolInputs(name) ==
    CASE name = "read_file" ->
            { JObj("path" :> JStr(p)) : p \in ToolPaths }
            \cup { EmptyObj, JNull, JObj("path" :> JNum(5)), JObj("path" :> JNull) }
      [] name = "write_file" ->
            { JObj(("path" :> JStr(p)) @@ ("content" :> JStr(S("data")))) :
                p \in ToolPaths }
            \cup { JObj(("path" :> JStr(p)) @@ ("content" :> JStr(c))) :
                     p \in { Path(<<"a", ".", "txt">>), Path(<<"out", ".", "txt">>),
                             Path(<<".", ".", "/", "x">>), Path(<<"nodir", "/", "x">>) },
                     c \in { EmptyStr, Str(<<>>, 1000000), Str(<<>>, 1000001) } }
            \cup { EmptyObj,
                   JObj("path" :> JStr(Path(<<".", ".">>))),
                   JObj(("path" :> JStr(Path(<<".", ".">>))) @@ ("content" :> JNum(5))),
                   JObj("content" :> JStr(S("data"))) }
      [] name = "bash" ->
            { JObj("command" :> JStr(Str(c, 0))) : c \in ToolCommands }
            \cup { EmptyObj, JObj("command" :> JNum(5)) }

ToolInit ==
    /\ pc = "tool"
    /\ config = NoConfig
    /\ registry = Registered
    /\ messages = <<>>
    /\ iterations = 0
    /\ message = JNull
    /\ ci = 0
    /\ sent = <<>>
    /\ responses = <<>>
    /\ requests = 0
    /\ script = {}
    /\ files = InitFiles
    /\ io = <<>>
    /\ executed = <<>>
    /\ out = <<>>
    /\ err = <<>>
    /\ exit_code = -1

\* tool->execute(args)
Execute ==
    /\ pc = "tool"
    /\ Len(executed) < MaxExecutions
    /\ \E name \in DOMAIN registry :
        \E args \in ToolInputs(name) :
            LET tool == ToolRegistry_get(registry, name)
                ran == Tool_execute(tool, args, files)
            IN  /\ files' = ran.files
                /\ io' = io \o ran.io
                /\ executed' = Append(executed,
                                       Execution(S("direct"), tool, args, ran, files))
    /\ UNCHANGED <<pc, config, registry, messages, iterations, message, ci, sent,
                   responses, requests, script, out, err, exit_code>>

ToolNext == Execute

ToolSpec == ToolInit /\ [][ToolNext]_vars

\* ------------------------------------------------------------------------
\* The vocabulary of the properties
\* ------------------------------------------------------------------------
Last(seq) == seq[Len(seq)]

Terminated == pc \in {"exited", "fault"}

Warning == "Max tool iterations exceeded.\n"

\* a connection error, or a status outside 200..299
TransportFailure(r) == r.error \/ r.status_code < 200 \/ r.status_code > 299

\* the response holds a choices[0].message
HasMessage(r) ==
    /\ ~TransportFailure(r)
    /\ JsonParse(r.text).ok
    /\ LET v == JsonParse(r.text).v IN
       /\ Contains(v, "choices")
       /\ IsArray(Get(v, "choices"))
       /\ Get(v, "choices").items # <<>>
       /\ Contains(Get(v, "choices").items[1], "message")

MessageOf(r) == Get(Get(JsonParse(r.text).v, "choices").items[1], "message")

\* a 2xx response without a non-empty choices[0].message
LacksMessage(r) ==
    /\ ~TransportFailure(r)
    /\ (HasMessage(r) => JEmpty(MessageOf(r)))

\* the tool-call requests a message carries: none when tool_calls is absent,
\* null or an empty list
Requests(m) ==
    IF Contains(m, "tool_calls") /\ IsArray(Get(m, "tool_calls"))
    THEN Get(m, "tool_calls").items
    ELSE <<>>

\* the message carries no tool-call request: tool_calls is absent, null or an
\* empty list
NoToolCalls(m) ==
    /\ m.t = "object"
    /\ \/ ~Contains(m, "tool_calls")
       \/ Get(m, "tool_calls") = JNull
       \/ Get(m, "tool_calls") = JArr(<<>>)

\* the message of the response carries content and no tool-call request
FinalAnswer(r) ==
    /\ HasMessage(r)
    /\ IsString(Get(MessageOf(r), "content"))
    /\ NoToolCalls(MessageOf(r))

\* a tool-call request that gives its id and the name of a tool
IsRequest(c) ==
    /\ Contains(c, "id") /\ IsString(Get(c, "id"))
    /\ Contains(c, "function")
    /\ Contains(Get(c, "function"), "name")
    /\ IsString(Get(Get(c, "function"), "name"))
    /\ Contains(Get(c, "function"), "arguments")

\* the response requests one or more tool calls
RequestsToolCall(r) ==
    /\ HasMessage(r)
    /\ Requests(MessageOf(r)) # <<>>
    /\ \A j \in 1..Len(Requests(MessageOf(r))) : IsRequest(Requests(MessageOf(r))[j])

IsToolResult(msg) == Get(msg, "role") = JStr(S("tool"))

\* msg is the tool-result message of the request call
ResultOf(msg, call) ==
    /\ IsToolResult(msg)
    /\ Contains(call, "id")
    /\ Get(msg, "tool_call_id") = Get(call, "id")

\* the last n messages of the history are the results of calls[1..n], in order
ResultsAtEnd(calls, n) ==
    /\ Len(messages) >= n
    /\ \A j \in 1..n : ResultOf(messages[Len(messages) - n + j], calls[j])

NotFound == JStr(Str(<<"ERROR: ", "TOOL NOT FOUND">>, 0))

RegisteredNames == {"read_file", "write_file", "bash"}

\* ------------------------------------------------------------------------
\* C1: in every reachable state the history holds at most 30 messages,
\* after the append of the assistant message and of each tool result.
\* ------------------------------------------------------------------------
C1_HistoryBounded == Len(messages) <= MAX_MESSAGES

\* ------------------------------------------------------------------------
\* C2: once the history is seeded, its first message is the seed
\* {role: user, content: the prompt} in every reachable state, whatever the
\* service returns and whatever is evicted.
\* ------------------------------------------------------------------------
C2_SeedPinned ==
    config.ok =>
        /\ Len(messages) >= 1
        /\ messages[1] = JObj(("role" :> JStr(S("user")))
                              @@ ("content" :> JStr(config.prompt)))

\* an eviction has removed the first assistant message: a tool result now
\* follows the seed
C2_Witness ==
    /\ config.ok
    /\ Len(messages) >= MAX_MESSAGES
    /\ IsToolResult(messages[2])
    /\ messages[1] = JObj(("role" :> JStr(S("user")))
                          @@ ("content" :> JStr(S("list the files"))))

\* ------------------------------------------------------------------------
\* C3: every append to the seeded history that takes its length past 30
\* evicts exactly the message at index 1, every other append evicts nothing,
\* and the order of the remaining messages is kept.
\* ------------------------------------------------------------------------
C3_EvictOnOverflow ==
    [][ (config.ok /\ messages' # messages) =>
            LET pushed == Append(messages, Last(messages'))
            IN  IF Len(pushed) > MAX_MESSAGES
                THEN messages' = <<pushed[1]>> \o SubSeq(pushed, 3, Len(pushed))
                ELSE messages' = pushed ]_vars

\* ------------------------------------------------------------------------
\* C4: at most 10 requests are sent, and a run in which every response
\* requests a tool call ends after exactly 10 iterations with the warning,
\* exit code 0 and no unhandled fault.
\* ------------------------------------------------------------------------
C4_IterationBudget ==
    /\ requests <= MAX_ITER
    /\ (/\ Terminated
        /\ responses # <<>>
        /\ \A i \in 1..Len(responses) : RequestsToolCall(responses[i]))
       => /\ pc = "exited"
          /\ exit_code = 0
          /\ requests = MAX_ITER
          /\ Len(responses) = MAX_ITER
          /\ err = <<Warning>>

\* ------------------------------------------------------------------------
\* C5: a response that carries content and no tool calls ends the loop in
\* that iteration: the content is what is printed, nothing is appended after
\* the assistant message, no further request is sent, the exit code is 0; as
\* the first response it ends the loop after one iteration.
\* ------------------------------------------------------------------------
C5_FinalAnswerEndsLoop ==
    \A i \in 1..Len(responses) :
        FinalAnswer(responses[i]) =>
            /\ i = Len(responses)
            /\ requests = i
            /\ iterations = i
            /\ pc \in {"after", "exited"}
            /\ exit_code = IF pc = "exited" THEN 0 ELSE -1
            /\ out = <<Get(MessageOf(responses[i]), "content").s>>
            /\ ~IsToolResult(Last(messages))
            /\ Len(messages) <= Len(sent) + 1

\* ------------------------------------------------------------------------
\* C6: the loop goes on to a further iteration if and only if the assistant
\* message carries one or more tool-call requests; a message with tool_calls
\* absent, null or empty ends the loop in its iteration.
\* ------------------------------------------------------------------------
C6_ContinuesIffToolCalls ==
    \A i \in 1..Len(responses) :
        HasMessage(responses[i]) =>
            LET m == MessageOf(responses[i]) IN
            /\ NoToolCalls(m) =>
                   /\ i = Len(responses)
                   /\ pc \in {"after", "exited", "fault"}
            /\ i < Len(responses) => Requests(m) # <<>>
            /\ (Requests(m) # <<>> /\ i = Len(responses) /\ pc = "after") =>
                   iterations > MAX_ITER

\* ------------------------------------------------------------------------
\* C7: for an assistant message with k tool-call requests the tools run one
\* at a time in the order received and k tool-result messages are appended
\* in that order, the i-th with the id of the i-th request, all of them
\* before the next request is sent; every role="tool" message of the history
\* carries the id of a request received before.
\* ------------------------------------------------------------------------
C7_ResultsInOrder ==
    /\ (responses # <<>> /\ RequestsToolCall(Last(responses))) =>
           LET calls == Requests(MessageOf(Last(responses)))
           IN  IF pc = "dispatch"
               THEN ResultsAtEnd(calls, ci - 1)
               ELSE ResultsAtEnd(calls, Len(calls))
    /\ \A j \in 1..Len(messages) :
           IsToolResult(messages[j]) =>
               \E i \in 1..Len(responses) :
                   /\ HasMessage(responses[i])
                   /\ \E c \in 1..Len(Requests(MessageOf(responses[i]))) :
                          ResultOf(messages[j], Requests(MessageOf(responses[i]))[c])

\* ------------------------------------------------------------------------
\* C8: the dispatch of a tool-call request whose name is none of read_file,
\* write_file, bash appends the tool result "ERROR: TOOL NOT FOUND" with the
\* id of the request, runs no tool, leaves the registry as it is, and leaves
\* control in the loop (at the next request of the message, or at the loop
\* guard) instead of ending the run.
\* ------------------------------------------------------------------------
C8_UnknownToolNotFatal ==
    [][ LET call == Items(Get(message, "tool_calls"))[ci]
            name == Get(Get(call, "function"), "name").s.chars[1]
        IN  (pc = "dispatch" /\ CanExtract(call) /\ name \notin RegisteredNames) =>
                /\ messages' = Append(messages,
                                      JObj(("role" :> JStr(S("tool")))
                                           @@ ("tool_call_id" :> Get(call, "id"))
                                           @@ ("content" :> NotFound)))
                /\ UNCHANGED <<executed, io, files, registry, exit_code, out, err>>
                /\ pc' \in {"dispatch", "guard"}
                /\ (pc' = "dispatch") = (ci < Len(Items(Get(message, "tool_calls"))))
      ]_vars

\* the result of an unregistered name is in the history and the loop has gone
\* on to post its next request
C8_Witness ==
    /\ pc = "recv"
    /\ \E j \in 1..Len(messages) :
           /\ IsToolResult(messages[j])
           /\ Get(messages[j], "content") = NotFound
           /\ Get(messages[j], "tool_call_id") = JStr(CallId(1, 2))

\* ------------------------------------------------------------------------
\* C9: a transport failure (a connection error, a status outside 200..299)
\* of any request ends the process at once with exit code 1: no retry, no
\* further request, no tool run and nothing appended to the history.
\* ------------------------------------------------------------------------
C9_TransportFailureFatal ==
    \A i \in 1..Len(responses) :
        TransportFailure(responses[i]) =>
            /\ i = Len(responses)
            /\ requests = i
            /\ pc = "exited"
            /\ exit_code = 1
            /\ messages = sent
            /\ out = <<>>

\* a request after the first fails with status 300, tool results before it
C9_Witness ==
    /\ Len(responses) >= 2
    /\ Last(responses).status_code = 300
    /\ ~Last(responses).error
    /\ executed # <<>>
    /\ exit_code = 1

\* ------------------------------------------------------------------------
\* C10: a 2xx response whose body is not JSON, or holds no non-empty
\* choices[0].message, ends the process with exit code 1: nothing appended,
\* no answer printed, no tool run.
\* ------------------------------------------------------------------------
C10_ProtocolErrorFatal ==
    \A i \in 1..Len(responses) :
        LacksMessage(responses[i]) =>
            /\ i = Len(responses)
            /\ pc = "exited"
            /\ exit_code = 1
            /\ messages = sent
            /\ out = <<>>

\* ------------------------------------------------------------------------
\* C11: a run ends by returning 0 (a final answer was printed, or the budget
\* was used up and the warning reported) or by returning 1 (with an error
\* reported); it never ends in an exception nothing catches, whatever the
\* shape of the response.
\* ------------------------------------------------------------------------
C11_ExitZeroOrOne ==
    /\ pc # "fault"
    /\ pc = "exited" =>
           \/ exit_code = 0 /\ (out # <<>> \/ err = <<Warning>>)
           \/ exit_code = 1 /\ err # <<>>

\* the error string a tool returns for arguments it cannot use
InvalidArguments(tool) ==
    CASE tool = "ReadFileTool" -> Str(<<"ERROR : ", "invalid argumnets.">>, 0)
      [] tool = "WriteFileTool" -> Str(<<"ERROR: ", "invalid arguments">>, 0)
      [] tool = "BashTool" -> Str(<<"ERROR: ", "inveild arguments.">>, 0)

\* ------------------------------------------------------------------------
\* C12: the dispatch of a request for a registered tool whose arguments
\* string is not JSON runs that tool with an empty object, appends the
\* tool's invalid-arguments error as the result with the id of the request,
\* touches no file and no process, and leaves control in the loop.
\* ------------------------------------------------------------------------
C12_UnparsableArgsNotFatal ==
    [][ LET calls == Items(Get(message, "tool_calls"))
            call == calls[ci]
            name == Get(Get(call, "function"), "name").s.chars[1]
            args_str == Get(Get(call, "function"), "arguments").s
        IN  (/\ pc = "dispatch"
             /\ CanExtract(call)
             /\ name \in RegisteredNames
             /\ ~JsonParse(args_str).ok) =>
                /\ Len(executed') = Len(executed) + 1
                /\ Last(executed').id = Get(call, "id").s
                /\ Last(executed').tool = Registered[name]
                /\ Last(executed').args = EmptyObj
                /\ messages' = Append(messages,
                       JObj(("role" :> JStr(S("tool")))
                            @@ ("tool_call_id" :> Get(call, "id"))
                            @@ ("content" :> JStr(InvalidArguments(Registered[name])))))
                /\ UNCHANGED <<files, io, exit_code, out, err>>
                /\ pc' \in {"dispatch", "guard"}
                /\ (pc' = "dispatch") = (ci < Len(calls))
      ]_vars

\* read_file was run on the unfinished arguments of the second request of the
\* second response, its error is in the history, and the third request of
\* the run has been posted
C12_Witness ==
    /\ pc = "recv"
    /\ requests = 3
    /\ \E j \in 1..Len(executed) :
           /\ executed[j].id = CallId(2, 2)
           /\ executed[j].tool = "ReadFileTool"
           /\ executed[j].args = EmptyObj
           /\ ~JsonParse(Get(Get(CallAt(2, 2), "function"), "arguments").s).ok
    /\ \E j \in 1..Len(messages) :
           /\ Get(messages[j], "tool_call_id") = JStr(CallId(2, 2))
           /\ Get(messages[j], "content") = JStr(InvalidArguments("ReadFileTool"))

\* ------------------------------------------------------------------------
\* The vocabulary of the properties of the tools
\* ------------------------------------------------------------------------
\* the executions of a tool, as positions of the log
ExecutionsOf(tool) == { j \in 1..Len(executed) : executed[j].tool = tool }

\* the argument of the execution is a string that holds ".."
DotDotPath(e) ==
    /\ IsString(Get(e.args, "path"))
    /\ Find(Get(e.args, "path").s, <<".", ".">>)

\* a path WriteFileTool has no objection to
WritablePath(path) ==
    /\ ~IsEmpty(path)
    /\ ~Find(path, <<".", ".">>)
    /\ path.chars[1] # "/"
    /\ ~Find(path, <<":">>)

Ops(events) == { events[k].op : k \in 1..Len(events) }

Count(events, op) == Cardinality({ k \in 1..Len(events) : events[k].op = op })

Spawned(old, new) ==
    { new[k].arg : k \in { i \in (Len(old) + 1)..Len(new) :
                             new[i].op \in {"popen", "popen_failed"} } }

\* ------------------------------------------------------------------------
\* C14: the dispatch of a request for bash whose command holds "sudo" or
\* "rm -rf /" appends the denylist error as its result and spawns nothing;
\* a step spawns a child process only for a request for bash whose command
\* is a non-empty string that holds neither.
\* ------------------------------------------------------------------------
C14_DenylistNoSpawn ==
    [][ LET calls == Items(Get(message, "tool_calls"))
            call == calls[ci]
            name == Get(Get(call, "function"), "name").s.chars[1]
            command == Get(parse_args(Get(Get(call, "function"), "arguments").s),
                           "command")
            denied == \/ Find(command.s, <<"sudo">>)
                      \/ Find(command.s, <<"rm", " ", "-", "rf", " ", "/">>)
        IN  /\ (/\ pc = "dispatch"
                /\ CanExtract(call)
                /\ name = "bash"
                /\ IsString(command)
                /\ denied) =>
                   /\ messages' = Append(messages,
                          JObj(("role" :> JStr(S("tool")))
                               @@ ("tool_call_id" :> Get(call, "id"))
                               @@ ("content" :>
                                      JStr(Str(<<"ERROR: ", "command not allowed.">>, 0)))))
                   /\ io' = io
                   /\ files' = files
            /\ Spawned(io, io') # {} =>
                   /\ pc = "dispatch"
                   /\ name = "bash"
                   /\ IsString(command)
                   /\ Spawned(io, io') = {command.s}
                   /\ ~IsEmpty(command.s)
                   /\ ~denied
      ]_vars

\* "ls" was run in a child process, "sudo rm important-file" was answered
\* with the denylist error and the next request posted: the one process
\* spawned is that of "ls"
C14_Witness ==
    /\ pc = "recv"
    /\ \E j \in 1..Len(messages) :
           /\ Get(messages[j], "tool_call_id") = JStr(CallId(3, 1))
           /\ Get(messages[j], "content") =
                  JStr(Str(<<"ERROR: ", "command not allowed.">>, 0))
    /\ \E j \in 1..Len(executed) :
           /\ executed[j].id = CallId(3, 1)
           /\ executed[j].tool = "BashTool"
           /\ Find(Get(executed[j].args, "command").s, <<"sudo">>)
    /\ { io[k].arg : k \in { i \in 1..Len(io) : io[i].op = "popen" } }
           = { Str(<<"ls">>, 0) }

\* ------------------------------------------------------------------------
\* C15: ReadFileTool::execute returns its over-size error without reading
\* when the file holds more than 1,000,000 bytes; WriteFileTool::execute
\* neither opens, truncates nor writes for a content of more than 1,000,000
\* bytes, and returns its over-size error for it when it accepts the path;
\* a file and a content of exactly 1,000,000 bytes are read and written.
\* ------------------------------------------------------------------------
C15_SizeLimits ==
    \A j \in 1..Len(executed) :
        LET e == executed[j]
            path == Get(e.args, "path").s
            content == Get(e.args, "content").s
        IN
        /\ (/\ e.tool = "ReadFileTool"
            /\ IsString(Get(e.args, "path"))
            /\ ~Find(path, <<".", ".">>)
            /\ path \in DOMAIN e.before) =>
               /\ e.before[path].size > 1000000 =>
                      /\ e.result = Str(<<"ERROR: ", "File too Large">>, 0)
                      /\ "read" \notin Ops(e.io)
               /\ (e.before[path].size = 1000000 /\ e.before[path].readable) =>
                      /\ e.result = e.before[path].data
                      /\ Size(e.result) = 1000000
                      /\ "read" \in Ops(e.io)
        /\ (/\ e.tool = "WriteFileTool"
            /\ IsString(Get(e.args, "path"))
            /\ IsString(Get(e.args, "content"))) =>
               /\ Size(content) > 1000000 =>
                      /\ e.io = <<>>
                      /\ e.after = e.before
                      /\ e.result.chars[1] = "ERROR: "
                      /\ WritablePath(path) =>
                             e.result = Str(<<"ERROR: ", "content too large.">>, 0)
               /\ (/\ Size(content) = 1000000
                   /\ WritablePath(path)
                   /\ CanOpenWrite(path)
                   /\ CanWrite(path)) =>
                      /\ e.result = Str(<<"SUCESS: ", "file written.">>, 0)
                      /\ e.after[path].size = 1000000
                      /\ e.after[path].data = content

\* a content of exactly 1,000,000 bytes has replaced a.txt, and a content of
\* 1,000,001 bytes was then refused for it
C15_Witness ==
    /\ Len(executed) = 2
    /\ \A j \in 1..2 :
           /\ executed[j].tool = "WriteFileTool"
           /\ Get(executed[j].args, "path") = JStr(Path(<<"a", ".", "txt">>))
    /\ Size(Get(executed[1].args, "content").s) = 1000000
    /\ Size(Get(executed[2].args, "content").s) = 1000001
    /\ files[Path(<<"a", ".", "txt">>)].size = 1000000

\* the check of ReadFileTool::execute that fails first for the execution,
\* in the order of the checks ("none": they all pass)
ReadFailure(e) ==
    LET path == Get(e.args, "path").s IN
    IF ~IsString(Get(e.args, "path")) THEN "invalid arguments"
    ELSE IF Find(path, <<".", ".">>) THEN "traversal detected"
    ELSE IF path \notin DOMAIN e.before THEN "open failure"
    ELSE IF e.before[path].size < 0 THEN "size failure"
    ELSE IF e.before[path].size > 1000000 THEN "too large"
    ELSE IF ~e.before[path].readable THEN "read failure"
    ELSE "none"

\* the text that follows "ERROR: " for each failure class
ReadFailureText(class) ==
    CASE class = "invalid arguments" -> "invalid argumnets."
      [] class = "traversal detected" -> "path traversal detected."
      [] class = "open failure" -> "could not open file."
      [] class = "size failure" -> "could not determine file size."
      [] class = "too large" -> "File too Large"
      [] class = "read failure" -> "file read failed."

\* ------------------------------------------------------------------------
\* C16: ReadFileTool::execute checks, in this order, that path is a string,
\* that it holds no "..", that the file opens, that its size is known, that
\* the size is at most 1,000,000, that the content is read; the first check
\* that fails decides the result alone, the result of each of the six
\* failures is a string of its own that begins with "ERROR: ", and the
\* result is the content of the file when no check fails.
\* ------------------------------------------------------------------------
C16_ReadChecksInOrder ==
    \A j \in ExecutionsOf("ReadFileTool") :
        LET e == executed[j]
            class == ReadFailure(e)
        IN  IF class = "none"
            THEN e.result = e.before[Get(e.args, "path").s].data
            ELSE /\ e.result.chars[1] = "ERROR: "
                 /\ e.result = Str(<<"ERROR: ", ReadFailureText(class)>>, 0)
                 /\ \A i \in ExecutionsOf("ReadFileTool") :
                        ReadFailure(executed[i]) # class =>
                            executed[i].result # e.result

\* ------------------------------------------------------------------------
\* C18: in BashTool::execute every pipe that was opened is closed once, and
\* last of all, before the call returns: with more than 1,000,000 bytes of
\* output the result is the over-limit error and no exit code, otherwise it
\* is the exit code followed by the output; no pipe, nothing to close.
\* ------------------------------------------------------------------------
C18_PipeClosedOnce ==
    \A j \in ExecutionsOf("BashTool") :
        LET e == executed[j]
            command == Get(e.args, "command").s
        IN  /\ Count(e.io, "popen") <= 1
            /\ Count(e.io, "pclose") = Count(e.io, "popen")
            /\ e.after = e.before
            /\ "popen" \in Ops(e.io) =>
                   /\ e.io = <<Event("popen", command), Event("pclose", command)>>
                   /\ IF Size(ProcOutput(command)) > 1000000
                      THEN e.result = Str(<<"ERROR: ", "output too large.">>, 0)
                      ELSE /\ e.result.chars =
                                  <<"EXIT_CODE: ", ToString(ProcExit(command)), "\n",
                                    "OUTPUT:\n">> \o ProcOutput(command).chars
                           /\ Size(e.result) =
                                  Size(Str(<<"EXIT_CODE: ", ToString(ProcExit(command)),
                                             "\n", "OUTPUT:\n">>, 0))
                                  + Size(ProcOutput(command))

\* a command of exactly 1,000,000 bytes of output has returned them with its
\* exit code, and a command of 1,000,001 bytes the over-limit error, each
\* with its pipe closed
C18_Witness ==
    /\ Len(executed) = 2
    /\ executed[1].args = JObj("command" :> JStr(Str(<<"seq", " ", "1000000">>, 0)))
    /\ executed[2].args = JObj("command" :> JStr(Str(<<"yes">>, 0)))
    /\ executed[1].result.chars[1] = "EXIT_CODE: "
    /\ executed[2].result = Str(<<"ERROR: ", "output too large.">>, 0)
    /\ Count(io, "popen") = 2
    /\ Count(io, "pclose") = 2

\* ------------------------------------------------------------------------
\* C17: a run that has ended reported the warning if and only if it had 10
\* iterations that each ended with a message requesting tool calls; a run
\* with a final answer in any of its iterations, the 10th included, reported
\* none.
\* ------------------------------------------------------------------------
C17_WarningIffBudgetExhausted ==
    Terminated =>
        /\ (\E k \in 1..Len(err) : err[k] = Warning)
               <=> /\ Len(responses) = MAX_ITER
                   /\ \A i \in 1..Len(responses) : RequestsToolCall(responses[i])
        /\ \A i \in 1..Len(responses) :
               FinalAnswer(responses[i]) => \A k \in 1..Len(err) : err[k] # Warning

\* ------------------------------------------------------------------------
\* C19: in the history of every request each role="tool" message comes
\* after an assistant message of that history whose tool_calls hold its
\* tool_call_id.
\* ------------------------------------------------------------------------
C19_ResultsFollowTheirRequest ==
    \A j \in 1..Len(sent) :
        IsToolResult(sent[j]) =>
            \E i \in 1..(j - 1) :
                /\ Get(sent[i], "role") = Assistant
                /\ \E c \in 1..Len(Requests(sent[i])) :
                       ResultOf(sent[j], Requests(sent[i])[c])

\* ------------------------------------------------------------------------
\* C20: when main() has returned, every tool-result message of the history
\* was part of a request: no tool ran in an iteration that no request
\* followed, the 10th included.
\* ------------------------------------------------------------------------
C20_ResultsReported ==
    pc = "exited" =>
        \A j \in 1..Len(messages) :
            IsToolResult(messages[j]) =>
                \E i \in 1..Len(sent) : sent[i] = messages[j]

====
